---- MODULE Spec2Model ----
(***************************************************************************)
(* Model of add_folders.py: the script that loads postman-collection.json, *)
(* appends five literal folders to collection['item'] and writes the       *)
(* collection back to the same path.                                       *)
(*                                                                         *)
(* The file on disk is a sequence of tokens (what json.dump emits and      *)
(* json.load consumes); the in-memory collection is a record.  A run is a  *)
(* process p whose position pc[p] walks the statements of the script.      *)
(*                                                                         *)
(* Taken as given: print() succeeds (stdout accepts the text), open()      *)
(* decodes the file with the encoding it was written in, and json.load     *)
(* reads the file in one piece.  The disk may refuse a write (DumpFail)    *)
(* and the file may be read-only (PermissionError at line 267).            *)
(***************************************************************************)
EXTENDS Integers, Sequences, FiniteSets, TLC

\* Largest number of folders in the collection the first run finds on disk.
MaxInit == 2
\* Largest number of runs of the script, one after the other.
MaxRuns == 2
\* Largest number of runs started when two invocations share the file.
MaxConcRuns == 3

VARIABLES
    exists,      \* whether postman-collection.json exists
    text,        \* its contents, a sequence of tokens
    pc,          \* pc[p]: the statement run p is at
    collection,  \* collection[p]: the value json.load returned
    handles,     \* handles[p]: the open file objects of run p ("r", "w")
    err,         \* err[p]: the exception that ended run p, or "none"
    woff,        \* woff[p]: the position of run p's "w" handle in the file
    sent,        \* sent[p]: tokens json.dump has passed to f.write in run p
    trace,       \* trace[p]: the file operations and appends of run p, in order
    readText,    \* readText[p]: what run p's json.load read
    startFile,   \* startFile[p]: the file as run p found it when it started
    initFile,    \* the file before the first run
    runs,        \* runs started so far
    okRuns       \* runs that reached the end of the script

vars == <<exists, text, pc, collection, handles, err, woff, sent, trace,
          readText, startFile, initFile, runs, okRuns>>

\* ------------------------------------------------------------------ data

\* The folder literals of the script (request entries by their "name";
\* the emoji that end the folder names are left out of the model's strings).
billing_folder_five ==
    [name |-> "Billing",
     item |-> <<"Create Invoice", "Get All Invoices", "Download Invoice PDF",
                "Create Payment", "Send Receipt Email">>]

billing_folder ==
    [name |-> "Billing",
     item |-> <<"Create Invoice", "Get All Invoices", "Download Invoice PDF",
                "Create Payment", "Send Receipt Email", "Get Payment Stats">>]

appointments_folder ==
    [name |-> "Appointments",
     item |-> <<"Create Appointment", "Get All Appointments",
                "Check Availability">>]

lab_folder ==
    [name |-> "Lab Reports",
     item |-> <<"Create Lab Report", "Get Lab Reports">>]

medical_folder ==
    [name |-> "Medical History",
     item |-> <<"Create Allergy", "Get Critical Allergies",
                "Record Vital Signs">>]

telemedicine_folder ==
    [name |-> "Telemedicine",
     item |-> <<"Create Session", "Get All Sessions">>]

\* A folder some earlier edit left in the collection.
existing_folder == [name |-> "Existing", item |-> <<>>]

NoGroup == [name |-> "", item |-> <<>>]

\* The value bound to `collection` before json.load has returned.
NoDoc == [kind |-> "none", meta |-> "", item |-> <<>>]

\* What the JSON document is: kind "list" is an object whose 'item' is a
\* list; "missing" an object without 'item'; "object", "string", "number",
\* "null" an object whose 'item' is of that type; "notobject" a document
\* whose top-level value is not an object.
ItemKinds == {"list", "missing", "object", "string", "number", "null", "notobject"}
Metas == {"m1", "m2"}
Formats == {"compact", "indent2"}

\* ---------------------------------------------------------------- tokens

OpenTok(fmt, kind, meta) ==
    [t |-> "open", fmt |-> fmt, kind |-> kind, meta |-> meta, g |-> NoGroup]
GroupTok(g) == [t |-> "group", fmt |-> "", kind |-> "", meta |-> "", g |-> g]
CloseTok == [t |-> "close", fmt |-> "", kind |-> "", meta |-> "", g |-> NoGroup]
HoleTok == [t |-> "hole", fmt |-> "", kind |-> "", meta |-> "", g |-> NoGroup]
JunkTok == [t |-> "junk", fmt |-> "", kind |-> "", meta |-> "", g |-> NoGroup]

\* The text of document doc written in format fmt.
Serialize(fmt, doc) ==
    <<OpenTok(fmt, doc.kind, doc.meta)>>
      \o [i \in 1..Len(doc.item) |-> GroupTok(doc.item[i])]
      \o <<CloseTok>>

\* json.dump(collection, f, indent=2): the text the script writes.
json_dump_flat(doc) == Serialize("indent2", [doc EXCEPT !.meta = ""])

json_dump(doc) == Serialize("indent2", doc)

\* Whether json.load accepts the text (otherwise it raises JSONDecodeError).
Parses(s) ==
    /\ Len(s) >= 2
    /\ s[1].t = "open"
    /\ s[Len(s)].t = "close"
    /\ \A i \in 2..(Len(s) - 1) : s[i].t = "group"
    /\ (s[1].kind # "list" => Len(s) = 2)

\* json.load(f) on a text it accepts.
json_load(s) ==
    [kind |-> s[1].kind, meta |-> s[1].meta,
     item |-> [i \in 1..(Len(s) - 2) |-> s[i + 1].g]]

\* write() of one token at position pos of the file (a position past the
\* end leaves a hole of zero bytes before it).
WriteAt(s, pos, tok) ==
    [i \in 1..(IF pos > Len(s) THEN pos ELSE Len(s)) |->
        IF i = pos THEN tok ELSE IF i <= Len(s) THEN s[i] ELSE HoleTok]

\* ------------------------------------------------------------ initial file

InitGroups == {existing_folder, billing_folder}

RECURSIVE SeqsUpTo(_, _)
SeqsUpTo(S, n) ==
    IF n = 0 THEN {<<>>}
    ELSE LET shorter == SeqsUpTo(S, n - 1)
         IN shorter \cup {Append(s, x) : s \in shorter, x \in S}

ValidDocs ==
    {[kind |-> "list", meta |-> m, item |-> s] :
        m \in Metas, s \in SeqsUpTo(InitGroups, MaxInit)}

BadShapeDocs ==
    {[kind |-> k, meta |-> m, item |-> <<>>] :
        k \in ItemKinds \ {"list"}, m \in Metas}

ValidTexts == {Serialize(f, d) : f \in Formats, d \in ValidDocs}

InitTexts ==
    ValidTexts
      \cup {Serialize(f, d) : f \in Formats, d \in BadShapeDocs}
      \cup {<<>>, <<JunkTok>>,
            <<OpenTok("compact", "list", "m1"), GroupTok(existing_folder)>>}

NoFile == [exists |-> FALSE, text |-> <<>>]

InitFiles == {NoFile} \cup {[exists |-> TRUE, text |-> s] : s \in InitTexts}

InitWith(P, files) ==
    /\ \E f \in files :
         /\ exists = f.exists
         /\ text = f.text
         /\ initFile = f
         /\ startFile = [p \in P |-> f]
    /\ pc = [p \in P |-> "open_r"]
    /\ collection = [p \in P |-> NoDoc]
    /\ handles = [p \in P |-> {}]
    /\ err = [p \in P |-> "none"]
    /\ woff = [p \in P |-> 0]
    /\ sent = [p \in P |-> 0]
    /\ trace = [p \in P |-> <<>>]
    /\ readText = [p \in P |-> <<>>]
    /\ runs = Cardinality(P)
    /\ okRuns = 0

\* The runs: one invocation at a time, or two sharing the file.
SeqProcs == {1}
ConcProcs == {1, 2}

Init == InitWith(SeqProcs, InitFiles)

\* ------------------------------------------------------------- statements

Log(p, e) == [trace EXCEPT ![p] = Append(@, e)]

\* An unhandled exception e at the statement run p is at: the script ends.
Raise(p, e) ==
    /\ err' = [err EXCEPT ![p] = e]
    /\ pc' = [pc EXCEPT ![p] = "failed"]

\* line 10: open('postman-collection.json', 'r')
OpenRead_creating(p) ==
    /\ pc[p] = "open_r"
    /\ exists' = TRUE
    /\ handles' = [handles EXCEPT ![p] = @ \cup {"r"}]
    /\ pc' = [pc EXCEPT ![p] = "load"]
    /\ trace' = Log(p, "open_r")
    /\ UNCHANGED <<text, collection, err, woff, sent, readText, startFile,
                   initFile, runs, okRuns>>

OpenRead(p) ==
    /\ pc[p] = "open_r"
    /\ \/ /\ exists
          /\ handles' = [handles EXCEPT ![p] = @ \cup {"r"}]
          /\ pc' = [pc EXCEPT ![p] = "load"]
          /\ trace' = Log(p, "open_r")
          /\ UNCHANGED err
       \/ /\ ~exists
          /\ Raise(p, "FileNotFoundError")
          /\ UNCHANGED <<handles, trace>>
    /\ UNCHANGED <<exists, text, collection, woff, sent, readText, startFile,
                   initFile, runs, okRuns>>

\* line 11: collection = json.load(f), inside the with block
Load_leaking(p) ==
    /\ pc[p] = "load"
    /\ readText' = [readText EXCEPT ![p] = text]
    /\ trace' = Log(p, "load")
    /\ \/ /\ Parses(text)
          /\ collection' = [collection EXCEPT ![p] = json_load(text)]
          /\ pc' = [pc EXCEPT ![p] = "close_r"]
          /\ UNCHANGED err
       \/ /\ ~Parses(text)
          /\ Raise(p, "JSONDecodeError")
          /\ UNCHANGED collection
    /\ UNCHANGED <<exists, text, handles, woff, sent, startFile, initFile, runs,
                   okRuns>>

Load(p) ==
    /\ pc[p] = "load"
    /\ readText' = [readText EXCEPT ![p] = text]
    /\ trace' = Log(p, "load")
    /\ \/ /\ Parses(text)
          /\ collection' = [collection EXCEPT ![p] = json_load(text)]
          /\ UNCHANGED err
       \/ /\ ~Parses(text)
          /\ err' = [err EXCEPT ![p] = "JSONDecodeError"]
          /\ UNCHANGED collection
    /\ pc' = [pc EXCEPT ![p] = "close_r"]
    /\ UNCHANGED <<exists, text, handles, woff, sent, startFile, initFile, runs,
                   okRuns>>

\* lines 10-11: leaving the with block closes f, also when json.load raised
CloseRead_thenSave(p) ==
    /\ pc[p] = "close_r"
    /\ handles' = [handles EXCEPT ![p] = @ \ {"r"}]
    /\ pc' = [pc EXCEPT ![p] = IF err[p] = "none" THEN "open_w" ELSE "failed"]
    /\ UNCHANGED <<exists, text, collection, err, woff, sent, trace, readText,
                   startFile, initFile, runs, okRuns>>

CloseRead(p) ==
    /\ pc[p] = "close_r"
    /\ handles' = [handles EXCEPT ![p] = @ \ {"r"}]
    /\ pc' = [pc EXCEPT ![p] = IF err[p] = "none" THEN "len" ELSE "failed"]
    /\ UNCHANGED <<exists, text, collection, err, woff, sent, trace, readText,
                   startFile, initFile, runs, okRuns>>

\* line 13: print(f"Current folders: {len(collection['item'])}")
\* collection['item'] raises KeyError without the key and TypeError when
\* collection is not a dict; len() raises TypeError on a number or None.
PrintLen_lenient(p) ==
    /\ pc[p] = "len"
    /\ \/ /\ collection[p].kind \in {"list", "object", "string"}
          /\ pc' = [pc EXCEPT ![p] = "billing"]
          /\ UNCHANGED <<err, collection>>
       \/ /\ collection[p].kind = "missing"
          /\ collection' = [collection EXCEPT ![p].kind = "list"]
          /\ pc' = [pc EXCEPT ![p] = "billing"]
          /\ UNCHANGED err
       \/ /\ collection[p].kind \in {"number", "null", "notobject"}
          /\ Raise(p, "TypeError")
          /\ UNCHANGED collection
    /\ UNCHANGED <<exists, text, handles, woff, sent, trace, readText,
                   startFile, initFile, runs, okRuns>>

PrintLen(p) ==
    /\ pc[p] = "len"
    /\ \/ /\ collection[p].kind \in {"list", "object", "string"}
          /\ pc' = [pc EXCEPT ![p] = "billing"]
          /\ UNCHANGED err
       \/ /\ collection[p].kind = "missing"
          /\ Raise(p, "KeyError")
       \/ /\ collection[p].kind \in {"number", "null", "notobject"}
          /\ Raise(p, "TypeError")
    /\ UNCHANGED <<exists, text, collection, handles, woff, sent, trace, readText,
                   startFile, initFile, runs, okRuns>>

\* collection['item'].append(folder), then the print that follows it
AppendFolder(p, here, folder, next) ==
    /\ pc[p] = here
    /\ collection[p].kind = "list"
    /\ collection' = [collection EXCEPT ![p].item = Append(@, folder)]
    /\ trace' = Log(p, folder.name)
    /\ pc' = [pc EXCEPT ![p] = next]
    /\ UNCHANGED <<exists, text, handles, err, woff, sent, readText, startFile,
                   initFile, runs, okRuns>>

HasFolder(doc, name) == \E i \in 1..Len(doc.item) : doc.item[i].name = name

\* lines 112-113.  A dict or str 'item' got past len() on line 13 and has
\* no append: AttributeError.  The later appends find the list this one
\* found.
AddBilling_deduplicating(p) ==
    /\ pc[p] = "billing"
    /\ \/ /\ ~HasFolder(collection[p], billing_folder.name)
          /\ AppendFolder(p, "billing", billing_folder, "appointments")
       \/ /\ collection[p].kind = "list"
          /\ HasFolder(collection[p], billing_folder.name)
          /\ trace' = Log(p, billing_folder.name)
          /\ pc' = [pc EXCEPT ![p] = "appointments"]
          /\ UNCHANGED <<exists, text, collection, handles, err, woff, sent,
                         readText, startFile, initFile, runs, okRuns>>
       \/ /\ collection[p].kind # "list"
          /\ Raise(p, "AttributeError")
          /\ UNCHANGED <<exists, text, collection, handles, woff, sent, trace,
                         readText, startFile, initFile, runs, okRuns>>

AddBilling(p) ==
    /\ pc[p] = "billing"
    /\ \/ AppendFolder(p, "billing", billing_folder, "appointments")
       \/ /\ collection[p].kind # "list"
          /\ Raise(p, "AttributeError")
          /\ UNCHANGED <<exists, text, collection, handles, woff, sent, trace,
                         readText, startFile, initFile, runs, okRuns>>

\* lines 164-165
AddAppointments_swapped(p) == AppendFolder(p, "appointments", lab_folder, "lab")

AddAppointments(p) == AppendFolder(p, "appointments", appointments_folder, "lab")

\* lines 193-194
AddLab(p) == AppendFolder(p, "lab", lab_folder, "medical")

\* lines 234-235
AddMedical(p) == AppendFolder(p, "medical", medical_folder, "telemedicine")

\* lines 263-264
AddTelemedicine(p) ==
    AppendFolder(p, "telemedicine", telemedicine_folder, "open_w")

\* line 267: open('postman-collection.json', 'w') creates or truncates the
\* file; on a file the user may not write it raises PermissionError and
\* leaves the file alone.
OpenWrite_appending(p) ==
    /\ pc[p] = "open_w"
    /\ \/ /\ handles' = [handles EXCEPT ![p] = @ \cup {"w"}]
          /\ woff' = [woff EXCEPT ![p] = Len(text)]
          /\ sent' = [sent EXCEPT ![p] = 0]
          /\ trace' = Log(p, "open_w")
          /\ pc' = [pc EXCEPT ![p] = "dump"]
          /\ UNCHANGED <<err, exists, text>>
       \/ /\ exists
          /\ Raise(p, "PermissionError")
          /\ UNCHANGED <<exists, text, handles, woff, sent, trace>>
    /\ UNCHANGED <<collection, readText, startFile, initFile, runs, okRuns>>

OpenWrite(p) ==
    /\ pc[p] = "open_w"
    /\ \/ /\ exists' = TRUE
          /\ text' = <<>>
          /\ handles' = [handles EXCEPT ![p] = @ \cup {"w"}]
          /\ woff' = [woff EXCEPT ![p] = 0]
          /\ sent' = [sent EXCEPT ![p] = 0]
          /\ trace' = Log(p, "open_w")
          /\ pc' = [pc EXCEPT ![p] = "dump"]
          /\ UNCHANGED err
       \/ /\ exists
          /\ Raise(p, "PermissionError")
          /\ UNCHANGED <<exists, text, handles, woff, sent, trace>>
    /\ UNCHANGED <<collection, readText, startFile, initFile, runs, okRuns>>

\* line 268: json.dump(collection, f, indent=2) writes the text piece by
\* piece at the handle's own position; the last piece ends the call.
DumpChunk(p) ==
    /\ pc[p] = "dump"
    /\ LET out == json_dump(collection[p])
           n == sent[p] + 1
       IN /\ text' = WriteAt(text, woff[p] + 1, out[n])
          /\ woff' = [woff EXCEPT ![p] = @ + 1]
          /\ sent' = [sent EXCEPT ![p] = n]
          /\ IF n = Len(out)
               THEN /\ pc' = [pc EXCEPT ![p] = "close_w"]
                    /\ trace' = Log(p, "dump")
               ELSE UNCHANGED <<pc, trace>>
    /\ UNCHANGED <<exists, collection, handles, err, readText, startFile,
                   initFile, runs, okRuns>>

\* line 268: a write() that fails (disk full, I/O error) raises OSError out
\* of json.dump with the text written so far left in the file.
DumpFail(p) ==
    /\ pc[p] = "dump"
    /\ err' = [err EXCEPT ![p] = "OSError"]
    /\ pc' = [pc EXCEPT ![p] = "close_w"]
    /\ UNCHANGED <<exists, text, collection, handles, woff, sent, trace, readText,
                   startFile, initFile, runs, okRuns>>

\* lines 267-268: leaving the with block closes f
CloseWrite(p) ==
    /\ pc[p] = "close_w"
    /\ handles' = [handles EXCEPT ![p] = @ \ {"w"}]
    /\ pc' = [pc EXCEPT ![p] = IF err[p] = "none" THEN "final" ELSE "failed"]
    /\ UNCHANGED <<exists, text, collection, err, woff, sent, trace, readText,
                   startFile, initFile, runs, okRuns>>

\* lines 270-271: the closing prints; the script ends with exit code 0
Final(p) ==
    /\ pc[p] = "final"
    /\ pc' = [pc EXCEPT ![p] = "done"]
    /\ okRuns' = okRuns + 1
    /\ UNCHANGED <<exists, text, collection, handles, err, woff, sent, trace,
                   readText, startFile, initFile, runs>>

Ended(p) == pc[p] \in {"done", "failed"}

\* The script is run again: a new process starts at line 10 with nothing
\* but the file carried over.
Restart(p, bound) ==
    /\ Ended(p)
    /\ runs < bound
    /\ runs' = runs + 1
    /\ pc' = [pc EXCEPT ![p] = "open_r"]
    /\ collection' = [collection EXCEPT ![p] = NoDoc]
    /\ handles' = [handles EXCEPT ![p] = {}]
    /\ err' = [err EXCEPT ![p] = "none"]
    /\ woff' = [woff EXCEPT ![p] = 0]
    /\ sent' = [sent EXCEPT ![p] = 0]
    /\ trace' = [trace EXCEPT ![p] = <<>>]
    /\ readText' = [readText EXCEPT ![p] = <<>>]
    /\ UNCHANGED <<exists, text, initFile, okRuns>>

\* One run after the other: startFile[p] records the file the new run finds.
Rerun(p) ==
    /\ Restart(p, MaxRuns)
    /\ startFile' = [startFile EXCEPT ![p] = [exists |-> exists, text |-> text]]

\* One of two invocations is run again while the other may still be running
\* (startFile keeps the first file: the other run may be changing it).
RerunConc(p) ==
    /\ Restart(p, MaxConcRuns)
    /\ UNCHANGED startFile

\* --------------------------------------------------------- specifications

\* One invocation at a time, run after run.
Next ==
    \E p \in SeqProcs :
        \/ OpenRead(p)
        \/ Load(p)
        \/ CloseRead(p)
        \/ PrintLen(p)
        \/ AddBilling(p)
        \/ AddAppointments(p)
        \/ AddLab(p)
        \/ AddMedical(p)
        \/ AddTelemedicine(p)
        \/ OpenWrite(p)
        \/ DumpChunk(p)
        \/ DumpFail(p)
        \/ CloseWrite(p)
        \/ Final(p)
        \/ Rerun(p)

Spec == Init /\ [][Next]_vars

\* Two invocations against the same file, their statements interleaved.
\* They start on a valid collection; the disk takes every write.
ConcTexts ==
    {Serialize("compact", [kind |-> "list", meta |-> "m1", item |-> s]) :
        s \in SeqsUpTo({existing_folder}, MaxInit)}

InitConc ==
    InitWith(ConcProcs, {[exists |-> TRUE, text |-> s] : s \in ConcTexts})

NextConc ==
    \E p \in ConcProcs :
        \/ OpenRead(p)
        \/ Load(p)
        \/ CloseRead(p)
        \/ PrintLen(p)
        \/ AddBilling(p)
        \/ AddAppointments(p)
        \/ AddLab(p)
        \/ AddMedical(p)
        \/ AddTelemedicine(p)
        \/ OpenWrite(p)
        \/ DumpChunk(p)
        \/ CloseWrite(p)
        \/ Final(p)
        \/ RerunConc(p)

SpecConc == InitConc /\ [][NextConc]_vars

\* ----------------------------------------------------------------- claims

TheFile == [exists |-> exists, text |-> text]

\* The five folders one run appends, in the order of lines 112-263.
FiveFolders ==
    <<billing_folder, appointments_folder, lab_folder, medical_folder,
      telemedicine_folder>>

FiveNames ==
    <<"Billing", "Appointments", "Lab Reports", "Medical History",
      "Telemedicine">>

\* Run p started on a file holding a collection whose 'item' is a list.
ValidStart(p) ==
    /\ startFile[p].exists
    /\ Parses(startFile[p].text)
    /\ json_load(startFile[p].text).kind = "list"

StartDoc(p) == json_load(startFile[p].text)

LastN(items, n) == SubSeq(items, Len(items) - n + 1, Len(items))

CountName(items, name) ==
    Cardinality({i \in 1..Len(items) : items[i].name = name})

RECURSIVE Times(_, _)
Times(s, n) == IF n = 0 THEN <<>> ELSE s \o Times(s, n - 1)

IsPrefix(s, t) == Len(s) <= Len(t) /\ SubSeq(t, 1, Len(s)) = s

Occurrences(s, e) == Cardinality({i \in 1..Len(s) : s[i] = e})

\* C1: a run that starts on a valid collection C and reaches the end of the
\* script leaves on disk a collection with len(C.item) + 5 folders whose
\* last five are Billing, Appointments, Lab Reports, Medical History and
\* Telemedicine, in that order, equal to the script's literals whatever C
\* is; and on a valid collection only a failing write can stop a run.
C1_AppendsFive ==
    \A p \in SeqProcs :
        /\ pc[p] = "done" =>
             /\ ValidStart(p)
             /\ exists /\ Parses(text)
             /\ Len(json_load(text).item) = Len(StartDoc(p).item) + 5
             /\ LastN(json_load(text).item, 5) = FiveFolders
             /\ [i \in 1..5 |-> LastN(json_load(text).item, 5)[i].name] = FiveNames
        /\ (pc[p] = "failed" /\ ValidStart(p)) =>
             err[p] \in {"PermissionError", "OSError"}

\* The scenario of the specification: {"item": [{"name": "Existing",
\* "item": []}]} has become a collection of six folders.
C1_Witness ==
    /\ pc[1] = "done"
    /\ runs = 1
    /\ StartDoc(1).item = <<existing_folder>>
    /\ Len(json_load(text).item) = 6

\* C2: a run that fails at any step leaves the file as it found it.
C2_AllOrNothing ==
    \A p \in SeqProcs : pc[p] = "failed" => TheFile = startFile[p]

BadShapes == {"missing", "object", "string", "number", "null"}

\* C3: on a document without 'item', or whose 'item' is no list, the run
\* ends with a KeyError, TypeError or AttributeError before line 267, and
\* the file is the same text at every moment of the run.
C3_SchemaError ==
    \A p \in SeqProcs :
        ( /\ startFile[p].exists
          /\ Parses(startFile[p].text)
          /\ StartDoc(p).kind \in BadShapes ) =>
            /\ TheFile = startFile[p]
            /\ pc[p] \notin {"open_w", "dump", "close_w", "final", "done"}
            /\ Occurrences(trace[p], "open_w") = 0
            /\ pc[p] = "failed" =>
                 err[p] \in {"KeyError", "TypeError", "AttributeError"}

\* A dict-valued 'item' passed len() on line 13 and failed on line 112.
C3_Witness ==
    /\ pc[1] = "failed"
    /\ err[1] = "AttributeError"
    /\ StartDoc(1).kind = "object"
    /\ TheFile = startFile[1]

\* C4: when the file does not exist the run ends with FileNotFoundError at
\* line 10, and there is still no file at the path afterwards.
C4_MissingFile ==
    \A p \in SeqProcs :
        ~startFile[p].exists =>
            /\ TheFile = NoFile
            /\ pc[p] \in {"open_r", "failed"}
            /\ pc[p] = "failed" => err[p] = "FileNotFoundError"
            /\ handles[p] = {}

C4_Witness ==
    /\ pc[1] = "failed"
    /\ err[1] = "FileNotFoundError"
    /\ runs = MaxRuns
    /\ ~exists

\* C5: after n runs have reached the end of the script, the file holds the
\* first collection's folders followed by n copies of the five folders:
\* len + 5n folders, each fixed name n times more often than at the start.
C5_NotIdempotent ==
    \A p \in SeqProcs :
        pc[p] = "done" =>
            LET first == json_load(initFile.text).item
                now == json_load(text).item
            IN /\ Parses(text)
               /\ Len(now) = Len(first) + 5 * okRuns
               /\ now = first \o Times(FiveFolders, okRuns)
               /\ \A i \in 1..5 :
                    CountName(now, FiveNames[i])
                      = CountName(first, FiveNames[i]) + okRuns

\* Two runs on a collection that already held a Billing folder: three now.
C5_Witness ==
    /\ pc[1] = "done"
    /\ okRuns = 2
    /\ CountName(json_load(initFile.text).item, "Billing") = 1
    /\ CountName(json_load(text).item, "Billing") = 3

\* C6: a run that reaches the end of the script leaves the folders it found
\* first in the output, unchanged and in their order, and the other
\* top-level fields of the collection with their values.
C6_Frame ==
    \A p \in SeqProcs :
        pc[p] = "done" =>
            LET C == StartDoc(p)
                out == json_load(text)
            IN /\ Parses(text)
               /\ out.kind = "list"
               /\ SubSeq(out.item, 1, Len(C.item)) = C.item
               /\ out.meta = C.meta

\* The input was written compactly and is rewritten with indent=2: the
\* bytes differ, the folders and the other fields do not.
C6_Witness ==
    /\ pc[1] = "done"
    /\ startFile[1].text[1].fmt = "compact"
    /\ text[1].fmt = "indent2"
    /\ StartDoc(1).meta = "m2"
    /\ StartDoc(1).item = <<existing_folder, billing_folder>>

RequestCounts == [i \in 1..5 |-> Len(LastN(json_load(text).item, 5)[i].item)]

\* C7 as stated: the five appended folders hold 5, 3, 2, 3 and 2 request
\* entries, 15 in all.
C7_AsStated ==
    \A p \in SeqProcs :
        pc[p] = "done" =>
            /\ RequestCounts = <<5, 3, 2, 3, 2>>
            /\ RequestCounts[1] + RequestCounts[2] + RequestCounts[3]
                 + RequestCounts[4] + RequestCounts[5] = 15

\* C7: the five appended folders hold 6 (Billing), 3 (Appointments),
\* 2 (Lab Reports), 3 (Medical History) and 2 (Telemedicine) request
\* entries, 16 in all.
C7_RequestCounts ==
    \A p \in SeqProcs :
        pc[p] = "done" =>
            /\ RequestCounts = <<6, 3, 2, 3, 2>>
            /\ RequestCounts[1] + RequestCounts[2] + RequestCounts[3]
                 + RequestCounts[4] + RequestCounts[5] = 16

C7_Witness ==
    /\ pc[1] = "done"
    /\ runs = 1
    /\ LastN(json_load(text).item, 5)[1].item[6] = "Get Payment Stats"

\* The file operations and appends of a run that reaches the end.
WholeRun ==
    <<"open_r", "load">> \o FiveNames \o <<"open_w", "dump">>

\* What a run does is a beginning of WholeRun: the load before every
\* append, the appends in the fixed order, the one write after the fifth
\* append, no load after it.
InOrder(p) ==
    /\ IsPrefix(trace[p], WholeRun)
    /\ pc[p] \in {"final", "done"} => trace[p] = WholeRun
    /\ Occurrences(trace[p], "open_w") <= 1

\* C8 as stated: every run reads the file exactly once, and what it does is
\* in the order read, five appends, write.
C8_AsStated ==
    \A p \in SeqProcs :
        /\ InOrder(p)
        /\ Ended(p) => Occurrences(trace[p], "load") = 1

\* C8: every run reads the file at most once, exactly once when the file
\* exists and not at all when open() fails on a missing file, writes it at
\* most once, and does so in the order read, five appends, write.
C8_ReadAppendWrite ==
    \A p \in SeqProcs :
        /\ InOrder(p)
        /\ Occurrences(trace[p], "load") <= 1
        /\ Ended(p) =>
             Occurrences(trace[p], "load") = IF startFile[p].exists THEN 1 ELSE 0

C8_Witness ==
    /\ pc[1] = "done"
    /\ trace[1] = WholeRun
    /\ Len(trace[1]) = 9

\* C9: a run never holds two handles on the file, holds the read handle
\* only inside lines 10-11 and the write handle only inside lines 267-268,
\* and holds none once it has ended, with an error or without.
C9_Handles ==
    \A p \in SeqProcs :
        /\ Cardinality(handles[p]) <= 1
        /\ "r" \in handles[p] <=> pc[p] \in {"load", "close_r"}
        /\ "w" \in handles[p] <=> pc[p] \in {"dump", "close_w"}
        /\ Ended(p) => handles[p] = {}

\* json.load raised on a file that was opened, and the handle is gone.
C9_Witness ==
    /\ pc[1] = "failed"
    /\ err[1] = "JSONDecodeError"
    /\ Occurrences(trace[1], "open_r") = 1
    /\ handles[1] = {}

Quiet == \A p \in ConcProcs : pc[p] \notin {"dump", "close_w", "final"}

\* C10: nothing keeps two runs apart.  Two runs that read the same text and
\* both reach the end leave that collection with five more folders, not
\* ten; two finished runs leave the first collection with five or with ten
\* more; and a run whose json.load reads a text the other run has truncated
\* and not yet written whole fails with JSONDecodeError and writes nothing.
C10_Race ==
    /\ \A p \in ConcProcs : \A q \in ConcProcs \ {p} :
         (pc[p] = "done" /\ pc[q] = "done" /\ readText[p] = readText[q]) =>
            /\ Parses(text)
            /\ json_load(text).item
                 = json_load(readText[p]).item \o FiveFolders
    /\ (okRuns = 2 /\ Quiet) =>
         /\ Parses(text)
         /\ \/ json_load(text).item
                 = json_load(initFile.text).item \o FiveFolders
            \/ json_load(text).item
                 = json_load(initFile.text).item \o Times(FiveFolders, 2)
    /\ \A p \in ConcProcs :
         (pc[p] \notin {"open_r", "load"} /\ ~Parses(readText[p])) =>
            /\ err[p] = "JSONDecodeError"
            /\ pc[p] \in {"close_r", "failed"}
            /\ Occurrences(trace[p], "open_w") = 0

\* Two runs have finished and the file has five more folders than at
\* first, and a third run has read the empty file the second had truncated.
C10_Witness ==
    /\ okRuns = 2
    /\ \A p \in ConcProcs : Ended(p)
    /\ Parses(text)
    /\ json_load(text).item = json_load(initFile.text).item \o FiveFolders
    /\ \E p \in ConcProcs :
         /\ pc[p] = "failed"
         /\ err[p] = "JSONDecodeError"
         /\ readText[p] = <<>>

====
